---- MODULE Spec2Model ----
(***************************************************************************)
(* Model of the extraction-and-recommendation pipeline of book-scanner:    *)
(* the provider factory and its fallback loops (services/llm/factory.py),  *)
(* VisionService.extract_book_titles (services/vision_service.py) and      *)
(* RecommendationService (services/recommendation_service.py).             *)
(*                                                                         *)
(* Numbers: a confidence is kept in tenths (1.0 = CONF_ONE), a match score *)
(* in units of 1/10000 (1.0 = SCORE_ONE), a rating in tenths of a star.    *)
(* An optional value (Python None) is the empty sequence, a present value  *)
(* v is <<v>>.  A text is a sequence of one-character strings.             *)
(***************************************************************************)
EXTENDS Integers, Sequences, FiniteSets, TLC

VARIABLES
    configured,        \* settings.*_API_KEY: the providers that have a key
    LLM_PROVIDER,      \* settings.LLM_PROVIDER: the configured primary
    LLM_ENABLED,       \* settings.LLM_ENABLED
    pc,                \* position of the request being served
    op,                \* the entry point the request came through
    available,         \* factory.py: local `available`
    providers_to_try,  \* factory.py: local `providers_to_try`
    idx,               \* position of the for loop in providers_to_try
    errors,            \* factory.py: local `errors`
    nbooks,            \* len(detected_books) of a batch scoring request
    inflight,          \* provider calls awaited and not yet completed
    trace,             \* provider calls and their completions, in order
    fbResult,          \* what the fallback function returned or raised
    result,            \* what the entry point returned or raised
    cache,             \* _recommendation_cache
    detected_books,    \* filter_and_rank_recommendations: its argument
    user_library,      \* filter_and_rank_recommendations: its argument
    all_books,         \* filter_and_rank_recommendations: local `all_books`
    json_str,          \* repair_json: its argument
    repaired,          \* repair_json: what it returned, once it has
    library,           \* sample_library_books: the caller's list
    max_books,         \* sample_library_books: its argument
    seed_shuffle,      \* the order random.Random(seed).shuffle gives a list
                       \* of this length, for the seed of the user
    sampled,           \* sample_library_books: its latest call
    requests,          \* concurrent calls of calculate_match_score_llm
    writes,            \* the writes to _recommendation_cache, in order
    detected_titles,   \* scan_books: local `detected_titles`
    search_tasks,      \* scan_books: the search_title tasks and their outcomes
    completed,         \* the tasks in the order they completed
    detected_books_list, \* scan_books: local `detected_books_list`, once joined
    book_table,        \* rows of table book
    userlibrary_table, \* rows of table userlibrary, in insertion order
    add_requests       \* concurrent calls of add_book_to_library

fbVars == <<pc, op, available, providers_to_try, idx, errors, nbooks,
            inflight, trace, fbResult, result>>
settingsVars == <<configured, LLM_PROVIDER, LLM_ENABLED>>
rankVars == <<cache, detected_books, user_library, all_books>>
repairVars == <<json_str, repaired>>
sampleVars == <<library, max_books, seed_shuffle, sampled>>
concVars == <<requests, writes>>
scanVars == <<detected_titles, search_tasks, completed, detected_books_list>>
addVars == <<book_table, userlibrary_table, add_requests>>
otherVars == <<concVars, scanVars, addVars>>

\* ---------------------------------------------------------------- helpers
Range(s) == {s[i] : i \in 1..Len(s)}

Min(a, b) == IF a <= b THEN a ELSE b

Max(a, b) == IF a >= b THEN a ELSE b

None == <<>>

Some(v) == <<v>>

\* ------------------------------------------------------------- the bounds
MaxBatch == 2      \* most candidates in one batch scoring request
MaxDetected == 2   \* most candidates in one filter_and_rank request
MaxCached == 1     \* most cache entries alive at once; older ones have expired
MaxLibrary == 3    \* most books in a library handed to sample_library_books
MaxBooks == 2      \* largest max_books handed to sample_library_books
MaxRequests == 2   \* most concurrent calls of calculate_match_score_llm
MaxScanTitles == 3 \* most titles extracted from one image
MaxAddRequests == 2 \* most concurrent calls of add_book_to_library

\* ------------------------------------------------------ program constants
CONF_ONE == 10          \* confidence 1.0, in tenths
MIN_CONFIDENCE == 3     \* 0.3, in tenths
MAX_TITLES == 30
MAX_TITLE_LENGTH == 200
SCORE_ONE == 10000      \* score 1.0, in units of 1/10000
MAX_LIBRARY_BOOKS == 50

\* PROVIDER_CLASSES and the dict literal of get_available_providers, both in
\* insertion order
PROVIDER_CLASSES == <<"openai", "anthropic", "google">>

\* get_llm_provider: fallback_order, "cheapest first"
fallback_order == <<"google", "openai", "anthropic">>

Providers == Range(PROVIDER_CLASSES)

\* ------------------------------------------------------------------ texts
\* str.lower(), on the letters the model's texts use
lower_char(c) ==
    CASE c = "D" -> "d"
      [] c = "E" -> "e"
      [] c = "J" -> "j"
      [] OTHER -> c

RECURSIVE lower(_)
lower(s) == IF s = <<>> THEN <<>> ELSE <<lower_char(Head(s))>> \o lower(Tail(s))

\* str.strip(): leading and trailing blanks removed
RECURSIVE lstrip(_)
lstrip(s) == IF s # <<>> /\ Head(s) = " " THEN lstrip(Tail(s)) ELSE s

RECURSIVE rstrip(_)
rstrip(s) ==
    IF s # <<>> /\ s[Len(s)] = " " THEN rstrip(SubSeq(s, 1, Len(s) - 1)) ELSE s

strip(s) == rstrip(lstrip(s))

\* " ".join(v.split()): runs of blanks collapsed to one, the ends trimmed
RECURSIVE collapse(_)
collapse(s) ==
    IF Len(s) < 2 THEN s
    ELSE IF s[1] = " " /\ s[2] = " " THEN collapse(Tail(s))
    ELSE <<Head(s)>> \o collapse(Tail(s))

join_split(s) == strip(collapse(s))

\* `a in b` on two texts
is_substring(a, b) ==
    \E i \in 0..(Len(b) - Len(a)) : SubSeq(b, i + 1, i + Len(a)) = a

\* ------------------------------------------------------------- exceptions
\* The exception classes the code raises and catches.  JSONDecodeError and
\* pydantic's ValidationError are subclasses of ValueError.
NoExc == "none"

IsValueError(e) == e \in {"ValueError", "JSONDecodeError", "ValidationError"}

IsException(e) == e # NoExc

\* ------------------------------------------- provider responses (extraction)
\* A response text of extract_titles_from_image is described by what the
\* code's steps make of it: whether it is wrapped in a ``` fence, whether
\* json.loads accepts it as it is ("json"), only after repair_json
\* ("repairable") or not at all ("garbage"), and the array it parses to.
\* An item is [title, author, confidence], each optional.
T_Dune == <<"D", "u", "n", "e">>

T_dune_padded == <<"d", "u", "n", "e", " ">>

T_Emma == <<"E", "m", "m", "a">>

T_blank == <<" ", " ">>

\* a title of n characters
T_long(n) == [k \in 1..n |-> "x"]

\* two-letter titles, a different one for each i in 1..36
T_letters == <<"a", "b", "c", "f", "g", "h">>

T_nth(i) == <<T_letters[((i - 1) \div 6) + 1], T_letters[((i - 1) % 6) + 1]>>

Item(t, c) == [title |-> t, author |-> None, confidence |-> c]

Text(syntax, fenced, value) == [syntax |-> syntax, fenced |-> fenced, value |-> value]

ExtractionTexts ==
    { Text("json", FALSE, <<Item(Some(T_Dune), Some(9)), Item(Some(T_Emma), Some(2))>>),
      Text("json", TRUE, <<Item(Some(T_Dune), Some(10)), Item(Some(T_dune_padded), Some(5))>>),
      Text("repairable", FALSE, <<Item(Some(T_Emma), Some(3))>>),
      Text("garbage", FALSE, <<>>),
      Text("json", FALSE, <<Item(Some(T_blank), Some(9)), Item(Some(T_Dune), Some(9))>>),
      Text("json", FALSE, <<Item(Some(T_Dune), Some(14))>>),
      Text("json", FALSE, <<>>),
      Text("json", FALSE, <<Item(Some(T_Emma), Some(2))>>),
      Text("json", FALSE, <<Item(Some(T_dune_padded), Some(2)), Item(Some(T_Dune), Some(9)),
                            Item(Some(T_Emma), Some(3))>>),
      Text("json", FALSE, <<Item(None, Some(9)), Item(Some(T_Emma), Some(8))>>),
      Text("json", FALSE, <<Item(Some(T_Dune), None), Item(Some(T_Emma), Some(8))>>),
      Text("json", FALSE, <<Item(Some(T_long(MAX_TITLE_LENGTH + 1)), Some(9)),
                            Item(Some(T_Emma), Some(8))>>),
      Text("json", FALSE, [i \in 1..MAX_TITLES |-> Item(Some(T_nth(i)), Some(9))]),
      Text("json", FALSE, [i \in 1..(MAX_TITLES + 1) |-> Item(Some(T_nth(i)), Some(9))]) }

\* vision_service.py 156-163: the ``` fence is cut off both ends
strip_fences(text) == [text EXCEPT !.fenced = FALSE]

\* json.loads: the parsed value, or JSONDecodeError
json_loads(text) ==
    IF text.syntax = "json" /\ ~text.fenced
    THEN [exc |-> NoExc, value |-> text.value]
    ELSE [exc |-> "JSONDecodeError", value |-> <<>>]

\* repair_json: trailing commas removed, a truncated text closed
repair_json(text) ==
    IF text.syntax = "repairable" THEN [text EXCEPT !.syntax = "json"] ELSE text

\* vision_service.py 156-172: the fence cut off, json.loads, and on its
\* failure json.loads of the repaired text
loads_with_repair(raw) ==
    LET response_text == strip_fences(raw)
        first == json_loads(response_text)
    IN  IF first.exc = NoExc THEN first ELSE json_loads(repair_json(response_text))

\* ExtractedTitle(**item): the field constraints and validate_title
ExtractedTitle_ok(item) ==
    /\ item.title # None
    /\ Len(item.title[1]) >= 1
    /\ Len(item.title[1]) <= MAX_TITLE_LENGTH
    /\ join_split(item.title[1]) # <<>>
    /\ item.confidence # None
    /\ item.confidence[1] >= 0
    /\ item.confidence[1] <= CONF_ONE

\* validate_author
validate_author(a) ==
    IF a = None THEN None
    ELSE IF join_split(a[1]) = <<>> THEN None ELSE Some(join_split(a[1]))

ExtractedTitle(item) ==
    [title |-> join_split(item.title[1]),
     author |-> validate_author(item.author),
     confidence |-> item.confidence[1]]

\* VLMTitleExtractionResponse.validate_titles: first occurrence of each
\* normalized title kept
RECURSIVE dedupe(_, _)
dedupe(v, seen) ==
    IF v = <<>> THEN <<>>
    ELSE LET normalized == strip(lower(Head(v).title))
         IN  IF normalized \in seen
             THEN dedupe(Tail(v), seen)
             ELSE <<Head(v)>> \o dedupe(Tail(v), seen \cup {normalized})

validate_titles_keep_all(v) == v

validate_titles(v) == dedupe(v, {})

\* the comprehension of lines 180-189
confident_above_only(t) == t.confidence > MIN_CONFIDENCE

confident(t) == t.confidence >= MIN_CONFIDENCE

confident_titles(v) == SelectSeq(v, confident)

\* extract_book_titles, lines 154-199: the titles, or the exception that
\* leaves the inner try block
parse_response(raw) ==
    LET response_text == strip_fences(raw)
        first == json_loads(response_text)
        parsed == IF first.exc = NoExc THEN first
                  ELSE json_loads(repair_json(response_text))
        items == parsed.value
        titles == confident_titles(
                      validate_titles([i \in 1..Len(items) |-> ExtractedTitle(items[i])]))
    IN  IF parsed.exc # NoExc
        THEN [exc |-> "JSONDecodeError", titles |-> <<>>]
        ELSE IF \E i \in 1..Len(items) : ~ExtractedTitle_ok(items[i])
        THEN [exc |-> "ValidationError", titles |-> <<>>]
        ELSE IF Len(items) > MAX_TITLES
        THEN [exc |-> "ValidationError", titles |-> <<>>]
        ELSE IF Len(titles) = 0
        THEN [exc |-> "ZeroDivisionError", titles |-> <<>>]  \* line 195: / len(titles)
        ELSE [exc |-> NoExc, titles |-> titles]

\* ---------------------------------------------- provider responses (scoring)
\* A response text of a batch scoring call: fence, whether json.loads accepts
\* it, whether the parsed value is a list, and its entries [score, explanation]
\* (each optional; a score is any number).
Entry(sc, ex) == [score |-> sc, explanation |-> ex]

BatchText(syntax, fenced, isList, value) ==
    [syntax |-> syntax, fenced |-> fenced, isList |-> isList, value |-> value]

BatchTexts ==
    { BatchText("json", FALSE, TRUE, <<Entry(Some(14000), Some("x"))>>),
      BatchText("json", TRUE, TRUE, <<Entry(Some(-2000), Some("y")), Entry(Some(5000), Some("x"))>>),
      BatchText("json", FALSE, TRUE, <<Entry(None, None)>>),
      BatchText("json", FALSE, FALSE, <<>>),
      BatchText("garbage", FALSE, TRUE, <<>>) }

\* what the network call of a provider method ends with
WireFailures == {"timeout", "api_error", "empty"}

Wire(kind, body) == [kind |-> kind, body |-> body]

ExtractionWires ==
    {Wire(k, Text("garbage", FALSE, <<>>)) : k \in WireFailures}
        \cup {Wire("text", t) : t \in ExtractionTexts}

BatchWires ==
    {Wire(k, BatchText("garbage", FALSE, TRUE, <<>>)) : k \in WireFailures}
        \cup {Wire("text", t) : t \in BatchTexts}

\* ------------------------------------------------------- provider methods
Returned(v) == [exc |-> NoExc, msg |-> "", value |-> v]

Raised(e, m) == [exc |-> e, msg |-> m, value |-> <<>>]

\* <Provider>.extract_titles_from_image: the raw text, unparsed; any failure
\* of the call and an empty content become RuntimeError
extract_titles_from_image(wire) ==
    IF wire.kind = "text" THEN Returned(wire.body)
    ELSE Raised("RuntimeError", wire.kind)

\* "Clamp score to valid range": max(0.0, min(1.0, score))
clamp_lower_missing(score) == Min(SCORE_ONE, score)

clamp(score) == Max(0, Min(SCORE_ONE, score))

\* result.get("score", 0.0), result.get("explanation", "No explanation provided")
parsed_result(entry) ==
    [score |-> clamp(IF entry.score = None THEN 0 ELSE entry.score[1]),
     explanation |-> IF entry.explanation = None THEN "No explanation provided"
                     ELSE entry.explanation[1]]

\* <Provider>.calculate_batch_match_scores for n detected books
calculate_batch_match_scores(wire, n) ==
    IF n = 0 THEN Returned(<<>>)
    ELSE IF wire.kind # "text" THEN Raised("RuntimeError", wire.kind)
    ELSE LET content == strip_fences(wire.body)
         IN  IF ~(content.syntax = "json" /\ ~content.fenced)
             THEN Raised("ValueError", "invalid_json")
             ELSE IF ~content.isList
             THEN Raised("RuntimeError", "not_a_list")
             ELSE IF Len(content.value) # n
             THEN Raised("RuntimeError", "wrong_length")
             ELSE Returned([i \in 1..n |-> parsed_result(content.value[i])])

\* --------------------------------------------------------------- factory
is_available(name) == name \in configured

\* get_available_providers: the dict is walked in insertion order
get_available_providers == SelectSeq(PROVIDER_CLASSES, is_available)

\* [primary_provider] + [p for p in available if p != primary_provider]
try_order_primary_twice(primary, avail) == <<primary>> \o avail

try_order(primary, avail) ==
    <<primary>> \o SelectSeq(avail, LAMBDA p : p # primary)

\* get_llm_provider(None): the provider chosen, or none available
RECURSIVE first_available(_, _)
first_available(order, requested) ==
    IF order = <<>> THEN None
    ELSE IF Head(order) # requested /\ is_available(Head(order)) THEN Some(Head(order))
    ELSE first_available(Tail(order), requested)

get_llm_provider ==
    LET requested_provider == LLM_PROVIDER
    IN  IF requested_provider \in Providers /\ is_available(requested_provider)
        THEN Some(requested_provider)
        ELSE first_available(fallback_order, requested_provider)

\* ------------------------------------------------------ results and events
NoResult == [status |-> "none", value |-> <<>>, exc |-> NoExc, msg |-> "", errors |-> <<>>]

Return(v) == [status |-> "return", value |-> v, exc |-> NoExc, msg |-> "", errors |-> <<>>]

Raise(e, m, errs) == [status |-> "raise", value |-> <<>>, exc |-> e, msg |-> m, errors |-> errs]

CallEvent(p) == [ev |-> "call", provider |-> p, out |-> Returned(<<>>)]

EndEvent(p, out) == [ev |-> "end", provider |-> p, out |-> out]

\* f"{provider_name}: {str(e)}"
error_msg(p, out) == [provider |-> p, error |-> out.msg]


\* ------------------------------------------ VisionService.extract_book_titles
\* `except (json.JSONDecodeError, ValueError)` of the inner try
inner_except(e) == IsValueError(e)

\* `except Exception` of the outer try
outer_except_runtime_only(e) == e = "RuntimeError"

outer_except(e) == IsException(e)

\* lines 148-209 once extract_titles_with_fallback has returned or raised
extract_book_titles(fb) ==
    IF fb.status = "raise"
    THEN IF outer_except(fb.exc) THEN Return(<<>>) ELSE Raise(fb.exc, fb.msg, <<>>)
    ELSE LET r == parse_response(fb.value)
         IN  IF r.exc = NoExc THEN Return(r.titles)
             ELSE IF inner_except(r.exc) THEN Return(<<>>)
             ELSE IF outer_except(r.exc) THEN Return(<<>>)
             ELSE Raise(r.exc, "", <<>>)

\* what the entry point hands its caller once the fallback function is left:
\* extract_book_titles goes on with lines 153-209, the batch function is the
\* entry point itself
entry_result(opname, fb) ==
    IF opname = "extract_book_titles" THEN extract_book_titles(fb) ELSE fb

\* ------------------------------------------------- the fallback functions
\* `if provider_name not in available: continue`
skipped_never(name, avail) == FALSE

skipped(name, avail) == name \notin Range(avail)

\* the for loop from position i on: the first provider that is not skipped
RECURSIVE next_try(_, _, _)
next_try(order, avail, i) ==
    IF i > Len(order) THEN i
    ELSE IF skipped(order[i], avail) THEN next_try(order, avail, i + 1)
    ELSE i

\* "All ... providers failed. Errors: {'; '.join(errors)}"
all_failed_last_only(errs) ==
    Raise("RuntimeError", "All providers failed",
          IF errs = <<>> THEN <<>> ELSE <<errs[Len(errs)]>>)

all_failed(errs) == Raise("RuntimeError", "All providers failed", errs)

\* The for loop of extract_titles_with_fallback (119-143) and of
\* calculate_batch_scores_with_fallback (181-207) run from position i up to
\* its next await: the next provider that is not skipped is constructed and
\* its method awaited; with none left the function raises.
RunLoop(opname, order, avail, i, errs, tr, flying) ==
    LET j == next_try(order, avail, i)
    IN  /\ idx' = j
        /\ errors' = errs
        /\ IF j <= Len(order)
           THEN /\ pc' = "awaiting"
                /\ inflight' = flying \cup {order[j]}
                /\ trace' = Append(tr, CallEvent(order[j]))
                /\ fbResult' = NoResult
                /\ result' = NoResult
           ELSE /\ pc' = "done"
                /\ inflight' = flying
                /\ trace' = tr
                /\ fbResult' = all_failed(errs)
                /\ result' = entry_result(opname, all_failed(errs))

\* extract_titles_with_fallback 104-117 and
\* calculate_batch_scores_with_fallback 166-179, then the loop
FallbackStart(opname) ==
    LET avail == get_available_providers
    IN  /\ available' = avail
        /\ IF avail = <<>>
           THEN /\ providers_to_try' = <<>>
                /\ idx' = 0
                /\ errors' = <<>>
                /\ inflight' = {}
                /\ trace' = <<>>
                /\ pc' = "done"
                /\ fbResult' = Raise("RuntimeError", "No LLM providers are configured", <<>>)
                /\ result' = entry_result(opname, fbResult')
           ELSE /\ providers_to_try' = try_order(LLM_PROVIDER, avail)
                /\ RunLoop(opname, try_order(LLM_PROVIDER, avail), avail, 1, <<>>, <<>>, {})

\* `return result`: the function is left, no further provider is tried
ProviderReturns_continue(p, out) ==
    RunLoop(op, providers_to_try, available, idx + 1, errors,
            Append(trace, EndEvent(p, out)), inflight \ {p})

ProviderReturns(p, out) ==
    /\ fbResult' = Return(out.value)
    /\ result' = entry_result(op, Return(out.value))
    /\ pc' = "done"
    /\ inflight' = inflight \ {p}
    /\ trace' = Append(trace, EndEvent(p, out))
    /\ UNCHANGED <<idx, errors>>

\* errors.append(error_msg)
recorded_dropped(errs, p, out) == errs

recorded(errs, p, out) == Append(errs, error_msg(p, out))

\* `except Exception as e`: the error is kept and the loop goes on
ProviderRaises(p, out) ==
    RunLoop(op, providers_to_try, available, idx + 1, recorded(errors, p, out),
            Append(trace, EndEvent(p, out)), inflight \ {p})

\* the awaited provider method completes and the request runs on to its next
\* await or to its end
ProviderCompletes ==
    /\ pc = "awaiting"
    /\ op \in {"extract_book_titles", "batch_scores"}
    /\ \E wire \in (IF op = "extract_book_titles" THEN ExtractionWires ELSE BatchWires) :
         LET p == providers_to_try[idx]
             out == IF op = "extract_book_titles"
                    THEN extract_titles_from_image(wire)
                    ELSE calculate_batch_match_scores(wire, nbooks)
         IN  IF out.exc = NoExc THEN ProviderReturns(p, out) ELSE ProviderRaises(p, out)
    /\ UNCHANGED <<op, available, providers_to_try, nbooks>>

\* VisionService.extract_book_titles, lines 142-144:
\* `if not settings.LLM_ENABLED: return []`
ExtractDisabled ==
    /\ pc = "idle"
    /\ ~LLM_ENABLED
    /\ op' = "extract_book_titles"
    /\ pc' = "done"
    /\ result' = Return(<<>>)
    /\ UNCHANGED <<available, providers_to_try, idx, errors, nbooks, inflight, trace, fbResult>>

\* VisionService.extract_book_titles with the LLM enabled, up to the first await
ExtractStart ==
    /\ pc = "idle"
    /\ LLM_ENABLED
    /\ op' = "extract_book_titles"
    /\ nbooks' = 0
    /\ FallbackStart("extract_book_titles")

\* calculate_batch_scores_with_fallback(detected_books, user_library), up to
\* the first await
BatchStart ==
    /\ pc = "idle"
    /\ op' = "batch_scores"
    /\ \E n \in 0..MaxBatch : nbooks' = n
    /\ FallbackStart("batch_scores")

\* get_llm_provider()
GetProvider ==
    /\ pc = "idle"
    /\ op' = "get_llm_provider"
    /\ pc' = "done"
    /\ result' = IF get_llm_provider = None
                 THEN Raise("RuntimeError", "No LLM providers are configured", <<>>)
                 ELSE Return(get_llm_provider)
    /\ UNCHANGED <<available, providers_to_try, idx, errors, nbooks, inflight, trace, fbResult>>

\* the caller has its result; the next request may come
NextRequest ==
    /\ pc = "done"
    /\ pc' = "idle"
    /\ op' = "none"
    /\ available' = <<>>
    /\ providers_to_try' = <<>>
    /\ idx' = 0
    /\ errors' = <<>>
    /\ nbooks' = 0
    /\ inflight' = {}
    /\ trace' = <<>>
    /\ fbResult' = NoResult
    /\ result' = NoResult
    /\ detected_books' = <<>>
    /\ user_library' = <<>>
    /\ all_books' = <<>>

\* ------------------------------------------------- candidates and library
\* A candidate is the dict of GoogleBooksService._parse_book_item: `keys` are
\* the keys it holds, a key it does not hold reads as the default of .get().
Candidate(author, categories, rating, count, gid, keys) ==
    [author |-> author, categories |-> categories, average_rating |-> rating,
     ratings_count |-> count, google_books_id |-> gid, keys |-> keys]

AllKeys == {"author", "categories", "average_rating", "ratings_count", "google_books_id"}

\* dict.get(key, default)
dict_get(d, key, default) == IF key \in d.keys THEN d[key] ELSE default

A_Ja == <<"J", "a">>

A_jan == <<"j", "a", "n">>

A_Ed == <<"E", "d">>

Cat_De == <<"D", "e">>

Cat_de == <<"d", "e">>

Cat_je == <<"j", "e">>

\* the categories string is held as the list it is the JSON text of
Candidates ==
    { Candidate(Some(A_Ja), Some(<<Cat_De>>), Some(40), Some(500), Some("g1"), AllKeys),
      Candidate(None, None, None, None, Some("g2"), AllKeys),
      Candidate(None, None, None, None, None, {"google_books_id"}),
      Candidate(Some(A_Ed), Some(<<Cat_de, Cat_je>>), Some(60), Some(2000), Some("g3"), AllKeys),
      Candidate(Some(A_Ed), None, Some(20), None, None, AllKeys) }

\* a Book row of the user's library
Book(id, gid, author, categories) ==
    [id |-> id, google_books_id |-> gid, author |-> author, categories |-> categories]

Libraries ==
    { <<>>,
      <<Book(2, Some("g3"), Some(A_jan), Some(<<Cat_de, Cat_je>>)),
        Book(1, None, None, None)>> }

\* ------------------------------------------------------- rule-based score
\* _parse_categories: the lower-cased categories, the empty set for None
parse_categories(c) ==
    IF c = None \/ c = Some(<<>>) THEN {} ELSE {lower(x) : x \in Range(c[1])}

\* the union over the library's books that have categories
library_categories(lib) ==
    UNION {parse_categories(lib[i].categories) : i \in 1..Len(lib)}

\* {book.author.lower() for book in user_library if book.author}
library_authors(lib) ==
    {lower(lib[i].author[1]) : i \in {k \in 1..Len(lib) :
                                     lib[k].author # None /\ lib[k].author # Some(<<>>)}}

\* a Python number is truthy
truthy(n) == n # None /\ n[1] # 0

\* calculate_match_score_rule_based: the score, or the exception it raises
calculate_match_score_rule_based(book, lib) ==
    IF lib = <<>>
    THEN LET rating == dict_get(book, "average_rating", Some(0))
         IN  [exc |-> NoExc,
              score |-> Min((IF rating = None THEN 0 ELSE rating[1]) * 200, SCORE_ONE)]
    ELSE LET author == dict_get(book, "author", Some(<<>>))
             detected_author == lower(author[1])
             detected_categories == parse_categories(dict_get(book, "categories", None))
             detected_rating == dict_get(book, "average_rating", Some(0))
             ratings_count == dict_get(book, "ratings_count", Some(0))
             category_overlap ==
                 Cardinality(detected_categories \cap library_categories(lib))
             author_term ==
                 IF /\ detected_author # <<>>
                    /\ \E a \in library_authors(lib) :
                          is_substring(a, detected_author) \/ is_substring(detected_author, a)
                 THEN 4000 ELSE 0
             category_term == Min(category_overlap, 3) * 1000
             rating_term ==
                 IF truthy(detected_rating) THEN Min(detected_rating[1] * 40, 2000) ELSE 0
             popularity_term ==
                 IF truthy(ratings_count) THEN Min(ratings_count[1], 1000) ELSE 0
         IN  IF author = None
             THEN [exc |-> "AttributeError", score |-> 0]   \* None.lower(), line 126
             ELSE [exc |-> NoExc,
                   score |-> Min(author_term + category_term + rating_term
                                 + popularity_term, SCORE_ONE)]

\* ----------------------------------------------------------------- cache
\* _recommendation_cache: the live entries, oldest first
cache_has(c, key) == \E i \in 1..Len(c) : c[i].key = key

cache_get(c, key) == c[CHOOSE i \in 1..Len(c) : c[i].key = key].value

\* _recommendation_cache[cache_key] = result; entries beyond the capacity
\* leave oldest first
cache_put_keep_first(c, key, value, capacity) ==
    IF cache_has(c, key) THEN c
    ELSE IF Len(c) + 1 > capacity THEN Tail(Append(c, [key |-> key, value |-> value]))
    ELSE Append(c, [key |-> key, value |-> value])

cache_put(c, key, value, capacity) ==
    LET others == SelectSeq(c, LAMBDA e : e.key # key)
        all == Append(others, [key |-> key, value |-> value])
    IN  IF Len(all) > capacity THEN Tail(all) ELSE all

\* sorted([str(book.id) for book in user_library]), hashed: the digest is
\* taken to identify the sorted id list
library_hash(lib) == SortSeq([i \in 1..Len(lib) |-> lib[i].id], <)

\* f"{library_hash}:{detected_book_id}"
cache_key(book, lib) ==
    LET detected_book_id == dict_get(book, "google_books_id", Some(""))
    IN  [library |-> library_hash(lib),
         book |-> IF detected_book_id = None THEN "None" ELSE detected_book_id[1]]

\* ----------------------------------------------------- LLM score of a book
\* A response text of calculate_book_match_score: a JSON object with a score
\* and an explanation (each optional), or text json.loads rejects.  This
\* method cuts no ``` fence off.
ScoreTexts ==
    { BatchText("json", FALSE, FALSE, <<Entry(Some(14000), Some("x"))>>),
      BatchText("json", FALSE, FALSE, <<Entry(Some(-2000), Some("y"))>>),
      BatchText("json", FALSE, FALSE, <<Entry(Some(5000), None)>>),
      BatchText("json", TRUE, FALSE, <<Entry(Some(5000), Some("x"))>>),
      BatchText("garbage", FALSE, FALSE, <<>>) }

ScoreWires ==
    {Wire(k, BatchText("garbage", FALSE, FALSE, <<>>)) : k \in WireFailures}
        \cup {Wire("text", t) : t \in ScoreTexts}

\* <Provider>.calculate_book_match_score
calculate_book_match_score(wire) ==
    IF wire.kind # "text" THEN Raised("RuntimeError", wire.kind)
    ELSE IF ~(wire.body.syntax = "json" /\ ~wire.body.fenced)
    THEN Raised("ValueError", "invalid_json")
    ELSE Returned(parsed_result(wire.body.value[1]))

Scored(exc, score, explanation) == [exc |-> exc, score |-> score, explanation |-> explanation]

\* the rule-based score with the explanation of the branch that asked for it
rule_based_with(book, lib, explanation) ==
    LET rb == calculate_match_score_rule_based(book, lib)
    IN  Scored(rb.exc, rb.score, explanation)

\* calculate_match_score_llm needs its provider: LLM scoring is on, the cache
\* has no entry for the key and a provider is configured
needs_provider_ignoring_cache(book, lib, c) ==
    /\ LLM_ENABLED
    /\ get_llm_provider # None

needs_provider(book, lib, c) ==
    /\ LLM_ENABLED
    /\ ~cache_has(c, cache_key(book, lib))
    /\ get_llm_provider # None

\* lines 264-288 for a book that needs no provider call: the rule-based
\* branch, a cache hit, or get_llm_provider raising inside
\* calculate_match_score_llm (lines 91-96; when the rule-based score raises
\* there, lines 274-281 compute it again and it raises again)
score_without_call(book, lib, c) ==
    IF ~LLM_ENABLED THEN rule_based_with(book, lib, "Rule-based recommendation")
    ELSE IF cache_has(c, cache_key(book, lib))
    THEN Scored(NoExc, cache_get(c, cache_key(book, lib)).score,
                cache_get(c, cache_key(book, lib)).explanation)
    ELSE rule_based_with(book, lib, "Rule-based recommendation (LLM error)")

\* lines 75-96 and 269-281 once the provider method has completed with `out`
score_after_call(book, lib, out) ==
    IF out.exc = NoExc THEN Scored(NoExc, out.value.score, out.value.explanation)
    ELSE rule_based_with(book, lib, "Rule-based recommendation (LLM error)")

\* is_book_in_library: the user's library holds a book with this id
is_book_in_library(lib, gid) ==
    /\ gid # None
    /\ gid # Some("")
    /\ \E i \in 1..Len(lib) : lib[i].google_books_id = gid

\* lines 272-296: the candidate with its score, explanation and flag
scored_book(book, lib, s) ==
    [book |-> book,
     match_score |-> s.score,
     recommendation_explanation |-> s.explanation,
     in_library |-> is_book_in_library(lib, dict_get(book, "google_books_id", None))]

\* list.sort(key=match_score, reverse=True): stable, equal scores keep their order
RECURSIVE insert_desc_before_equal(_, _)
insert_desc_before_equal(sorted, x) ==
    IF sorted = <<>> THEN <<x>>
    ELSE IF Head(sorted).match_score > x.match_score
    THEN <<Head(sorted)>> \o insert_desc_before_equal(Tail(sorted), x)
    ELSE <<x>> \o sorted

RECURSIVE insert_desc(_, _)
insert_desc(sorted, x) ==
    IF sorted = <<>> THEN <<x>>
    ELSE IF Head(sorted).match_score >= x.match_score
    THEN <<Head(sorted)>> \o insert_desc(Tail(sorted), x)
    ELSE <<x>> \o sorted

RECURSIVE sort_desc(_)
sort_desc(v) ==
    IF v = <<>> THEN <<>>
    ELSE insert_desc(sort_desc(SubSeq(v, 1, Len(v) - 1)), v[Len(v)])

\* lines 298-305
ranked_unfiltered(all) == [all_books |-> all, recommendations |-> sort_desc(all)]

ranked(all) ==
    [all_books |-> all,
     recommendations |-> sort_desc(SelectSeq(all, LAMBDA b : ~b.in_library))]

\* The for loop of filter_and_rank_recommendations from book i on, up to its
\* next await or to the end of the function: where it stops ("awaiting" the
\* provider for book i, or "done"), the books scored so far and the exception
\* that leaves the function, if any.
RECURSIVE rank_loop(_, _, _, _, _)
rank_loop(books, lib, i, all, c) ==
    IF i > Len(books) THEN [pc |-> "done", i |-> i, all |-> all, exc |-> NoExc]
    ELSE IF needs_provider(books[i], lib, c)
    THEN [pc |-> "awaiting", i |-> i, all |-> all, exc |-> NoExc]
    ELSE LET s == score_without_call(books[i], lib, c)
         IN  IF s.exc # NoExc THEN [pc |-> "done", i |-> i, all |-> all, exc |-> s.exc]
             ELSE rank_loop(books, lib, i + 1, Append(all, scored_book(books[i], lib, s)), c)

\* the request moves to where the loop stopped
RankTo(stop, tr) ==
    /\ pc' = stop.pc
    /\ idx' = stop.i
    /\ all_books' = stop.all
    /\ IF stop.pc = "awaiting"
       THEN /\ inflight' = {get_llm_provider[1]}
            /\ trace' = Append(tr, CallEvent(get_llm_provider[1]))
            /\ result' = NoResult
       ELSE /\ inflight' = {}
            /\ trace' = tr
            /\ result' = IF stop.exc = NoExc THEN Return(ranked(stop.all))
                         ELSE Raise(stop.exc, "", <<>>)

\* filter_and_rank_recommendations(detected_books, user_library, ...) up to
\* its first await
RankStart ==
    /\ pc = "idle"
    /\ op' = "filter_and_rank"
    /\ \E books \in UNION {[1..n -> Candidates] : n \in 0..MaxDetected}, lib \in Libraries :
         /\ detected_books' = books
         /\ user_library' = lib
         /\ RankTo(rank_loop(books, lib, 1, <<>>, cache), <<>>)
    /\ UNCHANGED <<cache, available, providers_to_try, errors, nbooks, fbResult>>

\* lines 79-81: the result of a successful provider call is stored; the
\* except branches store nothing
cache_after_call_storing_fallback(c, key, out, s) ==
    cache_put(c, key, [score |-> s.score, explanation |-> s.explanation], MaxCached)

cache_after_call(c, key, out, s) ==
    IF out.exc = NoExc THEN cache_put(c, key, out.value, MaxCached) ELSE c

\* the awaited calculate_book_match_score completes: its result is cached
\* (a success) or replaced by the rule-based score (a failure), and the loop
\* runs on
ScoreCompletes ==
    /\ pc = "awaiting"
    /\ op = "filter_and_rank"
    /\ \E wire \in ScoreWires :
         LET book == detected_books[idx]
             out == calculate_book_match_score(wire)
             s == score_after_call(book, user_library, out)
             c == cache_after_call(cache, cache_key(book, user_library), out, s)
             tr == Append(trace, EndEvent(get_llm_provider[1], out))
         IN  /\ cache' = c
             /\ IF s.exc # NoExc
                THEN RankTo([pc |-> "done", i |-> idx, all |-> all_books, exc |-> s.exc], tr)
                ELSE RankTo(rank_loop(detected_books, user_library, idx + 1,
                                      Append(all_books, scored_book(book, user_library, s)), c),
                            tr)
    /\ UNCHANGED <<op, detected_books, user_library, available, providers_to_try, errors,
                   nbooks, fbResult>>

\* an entry of the cache reaches its time to live: the oldest goes first
CacheExpires ==
    /\ cache # <<>>
    /\ cache' = Tail(cache)
    /\ UNCHANGED fbVars
    /\ UNCHANGED <<detected_books, user_library, all_books>>

\* ------------------------------------------------- repair_json on its text
\* The text is a sequence of characters.  The documents below are valid JSON;
\* repair_json is given each of their prefixes and each text of
\* TrailingCommaTexts.
Q == "\""

BS == "\\"

Documents ==
    { <<"[", "1", ",", "2", "]">>,
      <<"[", "1", ",", " ", "2", "]">>,
      <<"{", Q, "a", Q, ":", "[", "1", ",", "2", "]", "}">>,
      <<"[", "{", Q, "a", Q, ":", "1", "}", ",", "{", Q, "a", Q, ":", "2", "}", "]">>,
      <<"[", Q, "a", "[", Q, ",", "1", "]">>,
      <<"[", Q, "a", BS, Q, "b", Q, "]">>,
      <<"[", "[", "1", "]", ",", "[", "2", "]", "]">>,
      <<"{", Q, "a", Q, ":", "{", Q, "a", Q, ":", "1", "}", "}">>,
      <<"{", Q, "a", "}", Q, ":", Q, "b", Q, "}">>,
      <<"[", Q, "a", ",", "]", Q, "]">> }

TrailingCommaTexts ==
    { <<"[", "1", ",", "2", ",", "]">>,
      <<"[", "1", ",", " ", "]">>,
      <<"{", Q, "a", Q, ":", "1", ",", "}">>,
      <<"[", "{", Q, "a", Q, ":", "1", ",", "}", ",", "]">>,
      <<"[", "1", "]", " ">> }

Prefixes(d) == {SubSeq(d, 1, k) : k \in 1..Len(d)}

RepairTexts == (UNION {Prefixes(d) : d \in Documents}) \cup TrailingCommaTexts

\* str.count(c)
RECURSIVE count(_, _)
count(s, c) ==
    IF s = <<>> THEN 0 ELSE (IF Head(s) = c THEN 1 ELSE 0) + count(Tail(s), c)

\* c * n: the empty text for n <= 0
times(c, n) == [k \in 1..n |-> c]

\* re.sub(r',\s*([}\]])', r'\1', json_str)
RECURSIVE remove_trailing_commas(_)
remove_trailing_commas(s) ==
    IF s = <<>> THEN <<>>
    ELSE IF /\ Head(s) = ","
            /\ lstrip(Tail(s)) # <<>>
            /\ Head(lstrip(Tail(s))) \in {"}", "]"}
    THEN remove_trailing_commas(lstrip(Tail(s)))
    ELSE <<Head(s)>> \o remove_trailing_commas(Tail(s))

\* stripped.endswith((']', '}'))
ends_closed(s) == s # <<>> /\ s[Len(s)] \in {"]", "}"}

\* lines 48-53: the open string closed, then every '}' and then every ']'
close_all(stripped) ==
    LET open_brackets == count(stripped, "[") - count(stripped, "]")
        open_braces == count(stripped, "{") - count(stripped, "}")
        closed == IF count(stripped, Q) % 2 # 0 THEN Append(stripped, Q) ELSE stripped
    IN  closed \o times("}", open_braces) \o times("]", open_brackets)

\* repair_json(json_str), lines 37-55
repair_json_text(text) ==
    LET without == remove_trailing_commas(text)
        stripped == rstrip(without)
    IN  IF stripped # <<>> /\ ~ends_closed(stripped) THEN close_all(stripped)
        ELSE without

\* json.loads as a scanner of the text: the containers that are open and
\* what may come next.  The texts hold arrays, objects, strings (with \" and
\* \\ escapes), numbers and blanks.
Digits == {"1", "2"}

Scan(stack, mode) == [stack |-> stack, mode |-> mode]

Failed == Scan(<<>>, "error")

Top(stack) == IF stack = <<>> THEN "" ELSE stack[Len(stack)]

Pop(stack) == SubSeq(stack, 1, Len(stack) - 1)

\* a value begins with character c
begin_value(st, c) ==
    CASE c = "[" -> Scan(Append(st.stack, "["), "first")
      [] c = "{" -> Scan(Append(st.stack, "{"), "key_or_close")
      [] c = Q -> Scan(st.stack, "string")
      [] c \in Digits -> Scan(st.stack, "number")
      [] OTHER -> Failed

\* character c after a complete value
end_value(st, c) ==
    CASE c = "," /\ Top(st.stack) = "[" -> Scan(st.stack, "value")
      [] c = "," /\ Top(st.stack) = "{" -> Scan(st.stack, "key")
      [] c = "]" /\ Top(st.stack) = "[" -> Scan(Pop(st.stack), "after")
      [] c = "}" /\ Top(st.stack) = "{" -> Scan(Pop(st.stack), "after")
      [] OTHER -> Failed

scan_char(st, c) ==
    CASE st.mode = "error" -> Failed
      [] st.mode = "string" ->
            IF c = Q THEN Scan(st.stack, "after")
            ELSE IF c = BS THEN Scan(st.stack, "escape") ELSE st
      [] st.mode = "escape" ->
            IF c \in {Q, BS} THEN Scan(st.stack, "string") ELSE Failed
      [] st.mode = "key_string" ->
            IF c = Q THEN Scan(st.stack, "colon")
            ELSE IF c = BS THEN Scan(st.stack, "key_escape") ELSE st
      [] st.mode = "key_escape" ->
            IF c \in {Q, BS} THEN Scan(st.stack, "key_string") ELSE Failed
      [] st.mode = "number" /\ c \in Digits -> st
      [] c = " " -> IF st.mode = "number" THEN Scan(st.stack, "after") ELSE st
      [] st.mode = "value" -> begin_value(st, c)
      [] st.mode = "first" ->
            IF c = "]" THEN Scan(Pop(st.stack), "after") ELSE begin_value(st, c)
      [] st.mode = "key_or_close" ->
            IF c = "}" THEN Scan(Pop(st.stack), "after")
            ELSE IF c = Q THEN Scan(st.stack, "key_string") ELSE Failed
      [] st.mode = "key" -> IF c = Q THEN Scan(st.stack, "key_string") ELSE Failed
      [] st.mode = "colon" -> IF c = ":" THEN Scan(st.stack, "value") ELSE Failed
      [] st.mode \in {"after", "number"} -> end_value(st, c)
      [] OTHER -> Failed

RECURSIVE scan(_, _)
scan(st, s) == IF s = <<>> THEN st ELSE scan(scan_char(st, Head(s)), Tail(s))

\* json.loads(s) returns a value
json_parses(s) ==
    LET st == scan(Scan(<<>>, "value"), s)
    IN  st.stack = <<>> /\ st.mode \in {"after", "number"}

\* repair_json(json_str) is called and returns
RepairJson ==
    /\ repaired = None
    /\ repaired' = Some(repair_json_text(json_str))
    /\ UNCHANGED json_str

\* the next text is handed to repair_json
NextText ==
    /\ repaired # None
    /\ json_str' \in RepairTexts
    /\ repaired' = None

\* --------------------------------------------------- sample_library_books
\* the books a library may hold; a library may hold one more than once
LibraryBooks == {"a", "b", "c"}

SampleLibraries == UNION {[1..n -> LibraryBooks] : n \in 0..MaxLibrary}

\* the orders a list of n entries can be put in
Orders(n) == {o \in [1..n -> 1..n] : \A i, j \in 1..n : i # j => o[i] # o[j]}

\* rng.shuffle(shuffled): entry i of the shuffled list is entry order[i] of
\* the list as it was; the order depends on the seed and the length only
shuffle(lst, order) == [i \in 1..Len(lst) |-> lst[order[i]]]

\* `if len(library) <= max_books`
within_limit_exclusive(n, limit) == n < limit

within_limit(n, limit) == n <= limit

\* sample_library_books(library, user_id, max_books), lines 30-41
sample_library_books(lib, order, limit) ==
    IF within_limit(Len(lib), limit) THEN lib
    ELSE SubSeq(shuffle(lib, order), 1, limit)

\* one call of sample_library_books; the shuffle works on a copy, the
\* caller's list stays as it is
SampleCall ==
    /\ library' = library
    /\ sampled' = Some([library |-> library,
                        result |-> sample_library_books(library, seed_shuffle, max_books),
                        library_after |-> library'])
    /\ UNCHANGED <<max_books, seed_shuffle>>

\* get_user_library_books has no ORDER BY: the same books come back in
\* another order
Reorder ==
    /\ \E o \in Orders(Len(library)) :
         /\ shuffle(library, o) # library
         /\ library' = shuffle(library, o)
    /\ UNCHANGED <<max_books, seed_shuffle, sampled>>

\* ------------------------- concurrent calls of calculate_match_score_llm
\* Requests run as coroutines on one event loop: a request runs alone from
\* one await to the next.  calculate_match_score_llm has one await, the
\* provider call (line 75).
ConcBooks == {b \in Candidates : b.google_books_id \in {Some("g1"), Some("g3")}}

ConcWires == {Wire("text", t) : t \in ScoreTexts}

\* a request that has not called yet
IdleRequest == [pc |-> "idle", book |-> None, lib |-> <<>>, out |-> None, returned |-> None]

\* lines 39-75: the key is looked up; a hit returns the entry, a miss goes on
\* to the provider call and waits for it
LlmStart(r) ==
    /\ requests[r].pc = "idle"
    /\ \E book \in ConcBooks, lib \in Libraries :
         requests' = [requests EXCEPT ![r] =
            IF needs_provider(book, lib, cache)
            THEN [pc |-> "awaiting", book |-> Some(book), lib |-> lib,
                  out |-> None, returned |-> None]
            ELSE [pc |-> "done", book |-> Some(book), lib |-> lib, out |-> None,
                  returned |-> Some(score_without_call(book, lib, cache))]]
    /\ UNCHANGED <<cache, writes>>

\* lines 75-96: the provider call of request r completes; its result is
\* stored and returned, or the rule-based score is returned
LlmCompletes(r) ==
    /\ requests[r].pc = "awaiting"
    /\ \E wire \in ConcWires :
         LET book == requests[r].book[1]
             lib == requests[r].lib
             key == cache_key(book, lib)
             out == calculate_book_match_score(wire)
             s == score_after_call(book, lib, out)
         IN  /\ cache' = cache_after_call(cache, key, out, s)
             /\ writes' = IF out.exc = NoExc
                          THEN Append(writes, [r |-> r, key |-> key, value |-> out.value])
                          ELSE writes
             /\ requests' = [requests EXCEPT ![r] =
                    [pc |-> "done", book |-> Some(book), lib |-> lib,
                     out |-> Some(out), returned |-> Some(s)]]

\* ------------------------------------------- scan_books: the title lookups
\* the volume the catalog's best match for a title is
volume_of(title) == IF title = T_Dune THEN "g1" ELSE "g2"

TitleData(title, confidence) == [title |-> title, confidence |-> confidence]

ScanTitles == {TitleData(T_Dune, 9), TitleData(T_Emma, 5)}

Pending == [kind |-> "pending"]

\* what GoogleBooksService.fuzzy_search_book comes back with: a book, None,
\* or an exception
FuzzyOutcomes == {"book", "none", "raised"}

\* search_title(title_data), lines 74-84, once fuzzy_search_book has
\* completed: the book found carries the confidence of the title
search_title(title_data, outcome) ==
    IF outcome = "book"
    THEN [kind |-> "book",
          value |-> [google_books_id |-> volume_of(title_data.title),
                     confidence |-> title_data.confidence]]
    ELSE [kind |-> outcome]

\* asyncio.gather(*search_tasks, return_exceptions=True): the results in
\* the order of the tasks
gather_as_completed(tasks, done) == [k \in 1..Len(done) |-> tasks[done[k]]]

gather(tasks, done) == [k \in 1..Len(tasks) |-> tasks[k]]

\* lines 91-94: the results that are a book
keep_books(search_results) ==
    LET kept == SelectSeq(search_results, LAMBDA res : res.kind = "book")
    IN  [k \in 1..Len(kept) |-> kept[k].value]

\* lines 67-87: the titles are extracted (an empty list returns before any
\* lookup) and one search_title task is started per title
ScanStart ==
    /\ detected_titles = <<>>
    /\ \E n \in 1..MaxScanTitles :
         \E ts \in [1..n -> ScanTitles] :
            /\ detected_titles' = ts
            /\ search_tasks' = [k \in 1..n |-> Pending]
    /\ UNCHANGED <<completed, detected_books_list>>

\* the lookup of one of the pending tasks completes
LookupCompletes ==
    \E k \in 1..Len(search_tasks) :
        /\ search_tasks[k] = Pending
        /\ \E outcome \in FuzzyOutcomes :
             search_tasks' = [search_tasks EXCEPT ![k] = search_title(detected_titles[k], outcome)]
        /\ completed' = Append(completed, k)
        /\ UNCHANGED <<detected_titles, detected_books_list>>

\* lines 88-94: every task has completed and gather returns
ScanJoin ==
    /\ search_tasks # <<>>
    /\ detected_books_list = None
    /\ \A k \in 1..Len(search_tasks) : search_tasks[k] # Pending
    /\ detected_books_list' = Some(keep_books(gather(search_tasks, completed)))
    /\ UNCHANGED <<detected_titles, search_tasks, completed>>

\* ------------------------------------ concurrent calls of add_book_to_library
\* The handler is a coroutine with one await, the fetch from the catalog
\* (line 182); the database calls before and after it are synchronous.
\* A row of table book is known by its google_books_id, a row of table
\* userlibrary is a (user_id, book_id) pair.  Table userlibrary has no
\* unique constraint: its index on (user_id, book_id) is not unique.
Users == {"u1", "u2"}

Volumes == {"g1", "g2"}

IdleAddRequest == [pc |-> "idle", user |-> "", gid |-> "", response |-> 0]

LibraryRow(user, gid) == [user_id |-> user, book_id |-> gid]

\* lines 167-174: the user's library row for this google_books_id, if any
existing(user, gid) ==
    \E k \in 1..Len(userlibrary_table) : userlibrary_table[k] = LibraryRow(user, gid)

\* lines 167-182: 400 when the book is in the library, else the fetch starts
AddStart(r) ==
    /\ add_requests[r].pc = "idle"
    /\ \E user \in Users, gid \in Volumes :
         add_requests' = [add_requests EXCEPT ![r] =
            IF existing(user, gid)
            THEN [pc |-> "done", user |-> user, gid |-> gid, response |-> 400]
            ELSE [pc |-> "awaiting", user |-> user, gid |-> gid, response |-> 0]]
    /\ UNCHANGED <<book_table, userlibrary_table>>

\* lines 182-220: the fetch completes; 404 without book data, else the book
\* row is created if there is none and the library row is inserted
AddFetched(r) ==
    /\ add_requests[r].pc = "awaiting"
    /\ \E book_data \in BOOLEAN :
         LET user == add_requests[r].user
             gid == add_requests[r].gid
         IN  IF ~book_data
             THEN /\ add_requests' = [add_requests EXCEPT ![r].pc = "done", ![r].response = 404]
                  /\ UNCHANGED <<book_table, userlibrary_table>>
             ELSE /\ book_table' = book_table \cup {gid}
                  /\ userlibrary_table' = Append(userlibrary_table, LibraryRow(user, gid))
                  /\ add_requests' = [add_requests EXCEPT ![r].pc = "done", ![r].response = 200]

\* ---------------------------------------------------------- specification
vars == <<configured, LLM_PROVIDER, LLM_ENABLED, pc, op, available, providers_to_try,
          idx, errors, nbooks, inflight, trace, fbResult, result, cache,
          detected_books, user_library, all_books, json_str, repaired, library,
          max_books, seed_shuffle, sampled, requests, writes, detected_titles,
          search_tasks, completed, detected_books_list, book_table,
          userlibrary_table, add_requests>>

IdleInit ==
    /\ pc = "idle"
    /\ op = "none"
    /\ available = <<>>
    /\ providers_to_try = <<>>
    /\ idx = 0
    /\ errors = <<>>
    /\ nbooks = 0
    /\ inflight = {}
    /\ trace = <<>>
    /\ fbResult = NoResult
    /\ result = NoResult
    /\ cache = <<>>
    /\ detected_books = <<>>
    /\ user_library = <<>>
    /\ all_books = <<>>

\* repair_json has no text to work on
IdleRepair ==
    /\ json_str = <<>>
    /\ repaired = None

\* sample_library_books is not called
IdleSample ==
    /\ library = <<>>
    /\ max_books = MAX_LIBRARY_BOOKS
    /\ seed_shuffle = <<>>
    /\ sampled = None

\* no concurrent scoring request
IdleConc ==
    /\ requests = <<>>
    /\ writes = <<>>

\* scan_books is not called
IdleScan ==
    /\ detected_titles = <<>>
    /\ search_tasks = <<>>
    /\ completed = <<>>
    /\ detected_books_list = None

\* add_book_to_library is not called
IdleAdd ==
    /\ book_table = {}
    /\ userlibrary_table = <<>>
    /\ add_requests = <<>>

\* every setting of the API keys, the primary provider and the LLM switch
Init ==
    /\ configured \in SUBSET Providers
    /\ LLM_PROVIDER \in Providers
    /\ LLM_ENABLED \in BOOLEAN
    /\ IdleInit
    /\ IdleRepair
    /\ IdleSample
    /\ IdleConc
    /\ IdleScan
    /\ IdleAdd

\* the provider factory, its fallback functions and the title extraction
Next ==
    \/ (ExtractDisabled /\ UNCHANGED <<settingsVars, rankVars, repairVars, sampleVars, otherVars>>)
    \/ (ExtractStart /\ UNCHANGED <<settingsVars, rankVars, repairVars, sampleVars, otherVars>>)
    \/ (BatchStart /\ UNCHANGED <<settingsVars, rankVars, repairVars, sampleVars, otherVars>>)
    \/ (ProviderCompletes /\ UNCHANGED <<settingsVars, rankVars, repairVars, sampleVars, otherVars>>)
    \/ (GetProvider /\ UNCHANGED <<settingsVars, rankVars, repairVars, sampleVars, otherVars>>)
    \/ (NextRequest /\ UNCHANGED <<settingsVars, cache, repairVars, sampleVars, otherVars>>)

Spec == Init /\ [][Next]_vars

\* The whole pipeline, scoring and its cache included, under the settings
\* that differ for it: no key, one key, every key.
InitRank ==
    /\ configured \in {{}, {"anthropic"}, Providers}
    /\ LLM_PROVIDER \in {"openai"}
    /\ LLM_ENABLED \in BOOLEAN
    /\ IdleInit
    /\ IdleRepair
    /\ IdleSample
    /\ IdleConc
    /\ IdleScan
    /\ IdleAdd

NextRank ==
    \/ Next
    \/ (RankStart /\ UNCHANGED <<settingsVars, repairVars, sampleVars, otherVars>>)
    \/ (ScoreCompletes /\ UNCHANGED <<settingsVars, repairVars, sampleVars, otherVars>>)
    \/ (CacheExpires /\ UNCHANGED <<settingsVars, repairVars, sampleVars, otherVars>>)

SpecRank == InitRank /\ [][NextRank]_vars

\* repair_json alone, on every prefix of the documents
InitRepair ==
    /\ configured = {}
    /\ LLM_PROVIDER = "openai"
    /\ LLM_ENABLED = FALSE
    /\ IdleInit
    /\ IdleSample
    /\ json_str \in RepairTexts
    /\ repaired = None
    /\ IdleConc
    /\ IdleScan
    /\ IdleAdd

NextRepair ==
    \/ (RepairJson /\ UNCHANGED <<settingsVars, fbVars, rankVars, sampleVars, otherVars>>)
    \/ (NextText /\ UNCHANGED <<settingsVars, fbVars, rankVars, sampleVars, otherVars>>)

SpecRepair == InitRepair /\ [][NextRepair]_vars

\* sample_library_books alone, for one user: every library, every limit and
\* every order the user's seed may shuffle into
InitSample ==
    /\ configured = {}
    /\ LLM_PROVIDER = "openai"
    /\ LLM_ENABLED = FALSE
    /\ IdleInit
    /\ IdleRepair
    /\ library \in SampleLibraries
    /\ max_books \in 1..MaxBooks
    /\ seed_shuffle \in Orders(Len(library))
    /\ sampled = None
    /\ IdleConc
    /\ IdleScan
    /\ IdleAdd

NextSample ==
    \/ (SampleCall /\ UNCHANGED <<settingsVars, fbVars, rankVars, repairVars, otherVars>>)
    \/ (Reorder /\ UNCHANGED <<settingsVars, fbVars, rankVars, repairVars, otherVars>>)

SpecSample == InitSample /\ [][NextSample]_vars

\* concurrent scoring requests over the shared cache, every provider
\* configured
InitConc ==
    /\ configured = Providers
    /\ LLM_PROVIDER = "openai"
    /\ LLM_ENABLED = TRUE
    /\ IdleInit
    /\ IdleRepair
    /\ IdleSample
    /\ IdleScan
    /\ IdleAdd
    /\ requests = [r \in 1..MaxRequests |-> IdleRequest]
    /\ writes = <<>>

concFrame ==
    <<settingsVars, fbVars, detected_books, user_library, all_books, repairVars,
      sampleVars, scanVars, addVars>>

NextConc ==
    \/ \E r \in 1..MaxRequests : LlmStart(r) /\ UNCHANGED concFrame
    \/ \E r \in 1..MaxRequests : LlmCompletes(r) /\ UNCHANGED concFrame

SpecConc == InitConc /\ [][NextConc]_vars

\* the title lookups of scan_books
InitScan ==
    /\ configured = {}
    /\ LLM_PROVIDER = "openai"
    /\ LLM_ENABLED = FALSE
    /\ IdleInit
    /\ IdleRepair
    /\ IdleSample
    /\ IdleConc
    /\ IdleScan
    /\ IdleAdd

scanFrame == <<settingsVars, fbVars, rankVars, repairVars, sampleVars, concVars, addVars>>

NextScan ==
    \/ (ScanStart /\ UNCHANGED scanFrame)
    \/ (LookupCompletes /\ UNCHANGED scanFrame)
    \/ (ScanJoin /\ UNCHANGED scanFrame)

SpecScan == InitScan /\ [][NextScan]_vars

\* concurrent add_book_to_library requests over the two tables
InitAdd ==
    /\ configured = {}
    /\ LLM_PROVIDER = "openai"
    /\ LLM_ENABLED = FALSE
    /\ IdleInit
    /\ IdleRepair
    /\ IdleSample
    /\ IdleConc
    /\ IdleScan
    /\ book_table = {}
    /\ userlibrary_table = <<>>
    /\ add_requests = [r \in 1..MaxAddRequests |-> IdleAddRequest]

addFrame == <<settingsVars, fbVars, rankVars, repairVars, sampleVars, concVars, scanVars>>

NextAdd ==
    \/ \E r \in 1..MaxAddRequests : AddStart(r) /\ UNCHANGED addFrame
    \/ \E r \in 1..MaxAddRequests : AddFetched(r) /\ UNCHANGED addFrame

SpecAdd == InitAdd /\ [][NextAdd]_vars

\* ------------------------------------------------------------- properties
FallbackOps == {"extract_book_titles", "batch_scores"}

\* the providers called so far, in call order
CallsOf(tr) ==
    LET cs == SelectSeq(tr, LAMBDA e : e.ev = "call")
    IN  [i \in 1..Len(cs) |-> cs[i].provider]

\* the completions so far, in order
EndsOf(tr) == SelectSeq(tr, LAMBDA e : e.ev = "end")

IsPrefix(a, b) == Len(a) <= Len(b) /\ a = SubSeq(b, 1, Len(a))

\* C3: in both fallback functions at most one provider call is in flight, a
\* provider is called only as the first one or right after the previous call
\* has completed with a failure, and nothing follows a call that succeeded.
C3_SequentialFallback ==
    op \in FallbackOps =>
        /\ Cardinality(inflight) <= 1
        /\ \A i \in 1..Len(trace) :
             /\ trace[i].ev = "call" =>
                    i = 1 \/ (trace[i - 1].ev = "end" /\ trace[i - 1].out.exc # NoExc)
             /\ trace[i].ev = "end" =>
                    /\ i > 1
                    /\ trace[i - 1].ev = "call"
                    /\ trace[i - 1].provider = trace[i].provider
                    /\ trace[i].out.exc = NoExc => i = Len(trace)
        /\ inflight = IF trace # <<>> /\ trace[Len(trace)].ev = "call"
                      THEN {trace[Len(trace)].provider} ELSE {}

\* the first provider failed, the second succeeded, a third was left untried
C3_Witness ==
    /\ op \in FallbackOps
    /\ pc = "done"
    /\ Len(available) = 3
    /\ Len(trace) = 4
    /\ trace[2].out.exc # NoExc
    /\ trace[4].out.exc = NoExc

\* C4: one call of extract_titles_with_fallback invokes no provider twice, so
\* it makes at most as many provider calls as providers are available; while
\* a call is awaited the request can go on, and it ends with a returned
\* response or with the error that every attempt failed.
C4_EachProviderOnce ==
    op = "extract_book_titles" =>
        /\ \A i, j \in 1..Len(CallsOf(trace)) :
             CallsOf(trace)[i] = CallsOf(trace)[j] => i = j
        /\ Len(CallsOf(trace)) <= Len(available)
        /\ pc = "awaiting" => ENABLED Next
        /\ (pc = "done" /\ LLM_ENABLED) =>
              \/ fbResult.status = "return"
              \/ /\ fbResult.status = "raise"
                 /\ Len(EndsOf(trace)) = Len(available)
                 /\ \A i \in 1..Len(EndsOf(trace)) : EndsOf(trace)[i].out.exc # NoExc

\* the primary is available, and it and the two others were each called once
C4_Witness ==
    /\ op = "extract_book_titles"
    /\ pc = "done"
    /\ LLM_PROVIDER \in configured
    /\ Len(CallsOf(trace)) = 3
    /\ fbResult.status = "raise"

\* C5: when extraction ends with the k-th provider called returning, the
\* response handed on is that provider's, the titles returned are the ones
\* parsed (after repair), validated and filtered from it, and exactly k-1
\* errors are recorded: one per failed provider, in call order.
C5_KthProviderResult ==
    (op = "extract_book_titles" /\ pc = "done" /\ fbResult.status = "return") =>
        LET calls == CallsOf(trace)
            ends == EndsOf(trace)
            k == Len(calls)
            response == ends[k].out.value
        IN  /\ k >= 1
            /\ Len(ends) = k
            /\ ends[k].out.exc = NoExc
            /\ ends[k].provider = calls[k]
            /\ fbResult.value = response
            /\ Len(errors) = k - 1
            /\ \A i \in 1..(k - 1) :
                 /\ ends[i].out.exc # NoExc
                 /\ errors[i] = [provider |-> calls[i], error |-> ends[i].out.msg]
            /\ result.status = "return"
            /\ \A n \in 1..Len(result.value) :
                 /\ result.value[n].confidence >= MIN_CONFIDENCE
                 /\ \E m \in 1..Len(response.value) :
                      /\ response.value[m].title # None
                      /\ join_split(response.value[m].title[1]) = result.value[n].title
                      /\ response.value[m].confidence = Some(result.value[n].confidence)
            /\ (/\ response.syntax # "garbage"
                /\ Len(response.value) <= MAX_TITLES
                /\ \A m \in 1..Len(response.value) : ExtractedTitle_ok(response.value[m])
                /\ \E m \in 1..Len(response.value) :
                     response.value[m].confidence[1] >= MIN_CONFIDENCE)
                   => result.value # <<>>

\* the primary failed, the second provider answered with text that parses
\* only after repair, and its title is returned
C5_Witness ==
    /\ op = "extract_book_titles"
    /\ pc = "done"
    /\ fbResult.status = "return"
    /\ Len(CallsOf(trace)) = 2
    /\ CallsOf(trace)[1] = LLM_PROVIDER
    /\ Len(errors) = 1
    /\ fbResult.value.syntax = "repairable"
    /\ result.value # <<>>

\* a response is unusable: it does not parse even after repair, or none of
\* its items passes the schema
unusable(text) ==
    LET parsed == json_loads(repair_json(strip_fences(text)))
    IN  \/ parsed.exc # NoExc
        \/ \A m \in 1..Len(parsed.value) : ~ExtractedTitle_ok(parsed.value[m])

\* C6: an extraction response that is unusable counts as a failed attempt of
\* its provider: an error is recorded for that provider (and the next
\* provider is tried).
C6_UnusableResponseIsFailure ==
    op = "extract_book_titles" =>
        \A i \in 1..Len(trace) :
            (trace[i].ev = "end" /\ trace[i].out.exc = NoExc /\ unusable(trace[i].out.value))
                => \E n \in 1..Len(errors) : errors[n].provider = trace[i].provider

\* C7: when every available provider has failed, the error raised carries
\* one entry per attempted provider, in attempt order, each naming the
\* provider and its error; as many entries as available providers, none for
\* a provider that was skipped.
C7_AllFailedCarriesEveryError ==
    (op \in FallbackOps /\ fbResult.status = "raise") =>
        LET calls == CallsOf(trace)
            ends == EndsOf(trace)
            entries == fbResult.errors
        IN  /\ fbResult.exc = "RuntimeError"
            /\ Len(entries) = Cardinality(configured)
            /\ Len(entries) = Len(calls)
            /\ Len(ends) = Len(calls)
            /\ \A i \in 1..Len(entries) :
                 /\ entries[i].provider = calls[i]
                 /\ entries[i].error = ends[i].out.msg
                 /\ entries[i].provider \in configured

\* the primary has no key and was skipped, the two others failed, one of
\* them with a response that is no JSON
C7_Witness ==
    /\ op = "batch_scores"
    /\ fbResult.status = "raise"
    /\ LLM_PROVIDER \notin configured
    /\ Len(fbResult.errors) = 2
    /\ fbResult.errors[1].error = "invalid_json"
    /\ fbResult.errors[2].error = "timeout"

\* C8: extract_book_titles never raises, and it returns the empty list when
\* the LLM is off, when no provider is configured or all fail, and when the
\* response does not parse, does not validate or leaves no confident title.
C8_ExtractNeverRaises ==
    op = "extract_book_titles" =>
        /\ result.status # "raise"
        /\ pc = "done" =>
             /\ result.status = "return"
             /\ ~LLM_ENABLED => result.value = <<>>
             /\ fbResult.status = "raise" => result.value = <<>>
             /\ (fbResult.status = "return" /\ unusable(fbResult.value))
                    => result.value = <<>>
             /\ (/\ fbResult.status = "return"
                 /\ ~unusable(fbResult.value)
                 /\ \A m \in 1..Len(fbResult.value.value) :
                      ExtractedTitle_ok(fbResult.value.value[m])
                          => fbResult.value.value[m].confidence[1] < MIN_CONFIDENCE)
                    => result.value = <<>>

\* the provider answered with valid titles, all below the threshold
C8_Witness ==
    /\ op = "extract_book_titles"
    /\ pc = "done"
    /\ fbResult.status = "return"
    /\ fbResult.value.syntax = "json"
    /\ Len(fbResult.value.value) = 1
    /\ ExtractedTitle_ok(fbResult.value.value[1])
    /\ result = Return(<<>>)

\* C9: in both fallback functions no method of a provider without a key is
\* called, the configured primary included, and no error is recorded for it.
C9_UnavailableNeverCalled ==
    op \in FallbackOps =>
        /\ \A i \in 1..Len(trace) : trace[i].provider \in configured
        /\ \A n \in 1..Len(errors) : errors[n].provider \in configured
        /\ Len(errors) <= Len(EndsOf(trace))
        /\ inflight \subseteq configured

\* the primary has no key; the providers that have one were called and failed
C9_Witness ==
    /\ op \in FallbackOps
    /\ pc = "done"
    /\ LLM_PROVIDER \notin configured
    /\ Len(CallsOf(trace)) = 2
    /\ Len(errors) = 2

\* the order the specification gives: the primary, then the others cheapest first
CheapestFirst == <<"google", "openai", "anthropic">>

ExpectedOrder ==
    (IF LLM_PROVIDER \in configured THEN <<LLM_PROVIDER>> ELSE <<>>)
        \o SelectSeq(CheapestFirst, LAMBDA p : p \in configured /\ p # LLM_PROVIDER)

\* C10: the providers the fallback functions try, and the provider
\* get_llm_provider chooses, follow one order: the configured primary first,
\* then the other available providers in the order google, openai, anthropic.
C10_OneProviderOrder ==
    /\ op \in FallbackOps => IsPrefix(CallsOf(trace), ExpectedOrder)
    /\ (op = "get_llm_provider" /\ result.status = "return")
           => result.value = Some(ExpectedOrder[1])

InRange(score) == 0 <= score /\ score <= SCORE_ONE

\* C1: filter_and_rank_recommendations never raises: for every candidate
\* list and library it returns a result in which every input candidate
\* carries a match score and an explanation.
C1_RankNeverRaises ==
    (op = "filter_and_rank" /\ pc = "done") =>
        /\ result.status = "return"
        /\ Len(result.value.all_books) = Len(detected_books)
        /\ \A i \in 1..Len(detected_books) :
             /\ result.value.all_books[i].book = detected_books[i]
             /\ result.value.all_books[i].recommendation_explanation # ""

ExtractionDone ==
    /\ op = "extract_book_titles"
    /\ pc = "done"
    /\ fbResult.status = "return"
    /\ result.status = "return"

\* the array the response text parses to, as it is or after repair
ResponseItems == loads_with_repair(fbResult.value).value

Parses == loads_with_repair(fbResult.value).exc = NoExc

\* the normalized form of a title: lower-cased, blanks collapsed and trimmed
Normalized(t) == lower(join_split(t))

\* item k is valid and no valid item before it has its normalized title
FirstOfItsTitle(items, k) ==
    /\ ExtractedTitle_ok(items[k])
    /\ \A m \in 1..(k - 1) :
         ExtractedTitle_ok(items[m])
             => Normalized(items[m].title[1]) # Normalized(items[k].title[1])

\* C11: validation is per item: an item that fails it is dropped and the
\* valid items of the same response are still returned (here: every valid
\* item at or above the confidence threshold has its title in the result).
C11_InvalidItemsDropped ==
    (ExtractionDone /\ Parses) =>
        \A k \in 1..Len(ResponseItems) :
            (/\ ExtractedTitle_ok(ResponseItems[k])
             /\ ResponseItems[k].confidence[1] >= MIN_CONFIDENCE)
                => \E j \in 1..Len(result.value) :
                       Normalized(result.value[j].title)
                           = Normalized(ResponseItems[k].title[1])

\* C12: a response with more than MAX_TITLES valid titles is capped, not
\* rejected: at most MAX_TITLES titles are returned, and for more than
\* MAX_TITLES distinct valid titles the first MAX_TITLES of them.
C12_OverlongResponseCapped ==
    ExtractionDone =>
        /\ Len(result.value) <= MAX_TITLES
        /\ (/\ Parses
            /\ Len(ResponseItems) > MAX_TITLES
            /\ \A k \in 1..Len(ResponseItems) :
                 /\ FirstOfItsTitle(ResponseItems, k)
                 /\ ResponseItems[k].confidence[1] >= MIN_CONFIDENCE)
               => result.value =
                      [j \in 1..MAX_TITLES |-> ExtractedTitle(ResponseItems[j])]

\* the valid items that are the first of their normalized title, validated,
\* in response order
FirstOccurrences(items) ==
    LET firsts == SelectSeq([k \in 1..Len(items) |-> k],
                            LAMBDA k : FirstOfItsTitle(items, k))
    IN  [n \in 1..Len(firsts) |-> ExtractedTitle(items[firsts[n]])]

\* a can be had from b by leaving entries out
RECURSIVE IsSubsequence(_, _)
IsSubsequence(a, b) ==
    IF a = <<>> THEN TRUE
    ELSE IF b = <<>> THEN FALSE
    ELSE IF Head(a) = Head(b) THEN IsSubsequence(Tail(a), Tail(b))
    ELSE IsSubsequence(a, Tail(b))

\* C13: no two returned entries have the same normalized title; a returned
\* entry is the first item of the response with its normalized title, and
\* the returned entries are in response order.
C13_NoDuplicateTitles ==
    (op = "extract_book_titles" /\ result.status = "return") =>
        LET out == result.value
        IN  /\ \A i, j \in 1..Len(out) :
                 i < j => Normalized(out[i].title) # Normalized(out[j].title)
            /\ Len(out) > 0 =>
                 /\ ExtractionDone
                 /\ Parses
                 /\ IsSubsequence(out, FirstOccurrences(ResponseItems))

\* the response named one title twice, in two spellings, and the first
\* spelling is the one entry returned
C13_Witness ==
    /\ ExtractionDone
    /\ Parses
    /\ Len(ResponseItems) = 2
    /\ ResponseItems[1].title # ResponseItems[2].title
    /\ ExtractedTitle_ok(ResponseItems[2])
    /\ ~FirstOfItsTitle(ResponseItems, 2)
    /\ Len(result.value) = 1
    /\ result.value[1] = ExtractedTitle(ResponseItems[1])

\* the response passed validation as a whole
Accepted ==
    /\ Parses
    /\ Len(ResponseItems) <= MAX_TITLES
    /\ \A k \in 1..Len(ResponseItems) : ExtractedTitle_ok(ResponseItems[k])

\* C14: no returned title has a confidence below MIN_CONFIDENCE, and every
\* validated, deduplicated title at or above it (exactly 0.3 included) is
\* returned.
C14_ConfidenceThreshold ==
    (op = "extract_book_titles" /\ result.status = "return") =>
        /\ \A i \in 1..Len(result.value) : result.value[i].confidence >= MIN_CONFIDENCE
        /\ (ExtractionDone /\ Accepted) =>
             \A k \in 1..Len(ResponseItems) :
                 (/\ FirstOfItsTitle(ResponseItems, k)
                  /\ ResponseItems[k].confidence[1] >= MIN_CONFIDENCE)
                     => \E i \in 1..Len(result.value) :
                            result.value[i] = ExtractedTitle(ResponseItems[k])

\* one response held a title below the threshold and one exactly at it: the
\* second is returned, the first is not
C14_Witness ==
    /\ ExtractionDone
    /\ Accepted
    /\ \E k \in 1..Len(ResponseItems) : ResponseItems[k].confidence[1] < MIN_CONFIDENCE
    /\ Len(result.value) = 1
    /\ result.value[1].confidence = MIN_CONFIDENCE

\* ------------------------------------------------ properties of repair_json
\* the text is a document cut short: some array or object is left open
Truncated(s) == \E d \in Documents : s \in Prefixes(d) /\ s # d

\* the closers of the containers open at the end of s, innermost first
MissingClosers(s) ==
    LET stack == scan(Scan(<<>>, "value"), s).stack
    IN  [k \in 1..Len(stack) |->
            IF stack[Len(stack) + 1 - k] = "[" THEN "]" ELSE "}"]

EndsWith(s, tail) ==
    Len(tail) <= Len(s) /\ SubSeq(s, Len(s) - Len(tail) + 1, Len(s)) = tail

\* the document the cut text stands for: an open string closed, a comma at
\* the very end dropped, and the missing closers added in nesting order
Intended(s) ==
    LET mode == scan(Scan(<<>>, "value"), s).mode
        body == IF mode \in {"string", "key_string"} THEN Append(s, Q)
                ELSE IF s[Len(s)] = "," THEN SubSeq(s, 1, Len(s) - 1)
                ELSE s
    IN  body \o MissingClosers(s)

\* the cut leaves a text that closing alone turns into a document
Repairable(s) == Truncated(s) /\ json_parses(Intended(s))

\* C15: for every valid document and every truncation of it that leaves a
\* closing bracket or brace missing, repair_json returns text that parses as
\* JSON, and the closers it appends are exactly the missing ones in nesting
\* order.
C15_RepairRoundTrip ==
    (repaired # None /\ Repairable(json_str)) =>
        /\ json_parses(repaired[1])
        /\ EndsWith(repaired[1], MissingClosers(json_str))

\* ---------------------------------------- properties of sample_library_books
\* C16: for a fixed user id and a fixed set of library books of size above
\* max_books, every call returns the same books in the same order, whatever
\* the order the library list is passed in.
C16_SameSampleForAnyOrder ==
    [][(sampled # None /\ sampled' # None /\ Len(library) > max_books)
           => sampled'[1].result = sampled[1].result]_vars

\* how often book b occurs in list lst
Occurrences(lst, b) == Cardinality({i \in 1..Len(lst) : lst[i] = b})

\* C17: a library of at most max_books entries is returned unchanged (same
\* entries, same order, size max_books included); of a larger one exactly
\* max_books entries are returned, each an entry of the library and none
\* used more often than the library holds it; the caller's list is left as
\* it was.
C17_SampleSizeAndFrame ==
    sampled # None =>
        LET call == sampled[1]
        IN  /\ Len(call.library) <= max_books => call.result = call.library
            /\ Len(call.library) > max_books =>
                 /\ Len(call.result) = max_books
                 /\ \A b \in LibraryBooks :
                      Occurrences(call.result, b) <= Occurrences(call.library, b)
            /\ call.library_after = call.library

\* a library of three different books, limit 2: the two returned are not
\* the first two of the list
C17_Witness ==
    /\ sampled # None
    /\ Len(sampled[1].library) = 3
    /\ max_books = 2
    /\ Cardinality(Range(sampled[1].library)) = 3
    /\ sampled[1].result # SubSeq(sampled[1].library, 1, 2)

\* ------------------------------------------------- properties of the scoring
\* the value of a key of the candidate, 0 or the empty text when the key is
\* missing or None
NumberOf(book, key) ==
    IF key \in book.keys /\ book[key] # None THEN book[key][1] ELSE 0

AuthorOf(book) ==
    IF "author" \in book.keys /\ book.author # None THEN lower(book.author[1]) ELSE <<>>

\* the reference formula of the rule-based score, in units of 1/10000
ReferenceScore(book, lib) ==
    LET rating == NumberOf(book, "average_rating")
        author == AuthorOf(book)
        overlap == Cardinality(parse_categories(IF "categories" \in book.keys
                                                THEN book.categories ELSE None)
                               \cap library_categories(lib))
        author_term ==
            IF /\ author # <<>>
               /\ \E i \in 1..Len(lib) :
                    /\ lib[i].author # None
                    /\ lib[i].author[1] # <<>>
                    /\ \/ is_substring(lower(lib[i].author[1]), author)
                       \/ is_substring(author, lower(lib[i].author[1]))
            THEN 4000 ELSE 0
    IN  IF lib = <<>> THEN Max(0, Min(rating * 200, SCORE_ONE))
        ELSE Max(0, Min(author_term + 1000 * Min(overlap, 3) + Min(rating * 40, 2000)
                            + Min(NumberOf(book, "ratings_count"), 1000),
                        SCORE_ONE))

\* C18: calculate_match_score_rule_based equals the reference formula for
\* every candidate and library: rating/5 alone for an empty library, else
\* 0.4 for an author match + 0.3 * min(overlap/3, 1) + 0.2 * min(rating/5, 1)
\* + 0.1 * min(ratings_count/1000, 1), clamped to [0, 1].
C18_RuleBasedFormula ==
    op = "filter_and_rank" =>
        \A i \in 1..Len(detected_books) :
            LET rb == calculate_match_score_rule_based(detected_books[i], user_library)
            IN  /\ rb.exc = NoExc
                /\ rb.score = ReferenceScore(detected_books[i], user_library)

\* the entries of the trace that are provider calls of the scoring loop
ScoreCalls == SelectSeq(trace, LAMBDA e : e.ev = "call")

\* C19: a cache hit makes no provider call: once a (library id set,
\* candidate id) pair is LLM-scored and its entry is alive, a later call for
\* the same pair returns the stored score and explanation and calls no
\* provider.
C19_CacheHitNoProviderCall ==
    /\ [](op = "filter_and_rank" /\ pc = "awaiting"
            => ~cache_has(cache, cache_key(detected_books[idx], user_library)))
    /\ [][op' = "filter_and_rank" =>
            \A i \in (Len(all_books) + 1)..Len(all_books') :
                LET key == cache_key(detected_books'[i], user_library')
                    called == pc = "awaiting" /\ i = idx
                IN  (LLM_ENABLED /\ ~called /\ cache_has(cache', key)) =>
                        /\ all_books'[i].match_score = cache_get(cache', key).score
                        /\ all_books'[i].recommendation_explanation
                               = cache_get(cache', key).explanation
                        /\ Len(ScoreCalls') <= Len(ScoreCalls) + 1
                        /\ (Len(ScoreCalls') = Len(ScoreCalls) + 1
                              => pc' = "awaiting" /\ idx' > i)]_vars

\* a second scan of a candidate scored before: its score and explanation are
\* the stored ones and the scan made no provider call
C19_Witness ==
    /\ op = "filter_and_rank"
    /\ pc = "done"
    /\ LLM_ENABLED
    /\ get_llm_provider # None
    /\ Len(detected_books) = 1
    /\ trace = <<>>
    /\ cache_has(cache, cache_key(detected_books[1], user_library))
    /\ result.status = "return"
    /\ result.value.all_books[1].recommendation_explanation = "x"
    /\ result.value.all_books[1].match_score
           = cache_get(cache, cache_key(detected_books[1], user_library)).score

\* C20: one scan issues one batch scoring call for all candidates that miss
\* the cache: the number of successful provider scoring calls of one
\* filter_and_rank_recommendations is 1, not the number of candidates.
C20_OneBatchCallPerScan ==
    op = "filter_and_rank" =>
        Len(SelectSeq(trace, LAMBDA e : e.ev = "end" /\ e.out.exc = NoExc)) <= 1

\* ------------------------------------------- properties of the batch scoring
\* a provider answered the batch request with a JSON list of entries
AnsweredWithList ==
    \E i \in 1..Len(trace) :
        /\ trace[i].ev = "end"
        /\ \/ trace[i].out.exc = NoExc
           \/ trace[i].out.msg = "wrong_length"

\* C21: reconciliation of a batch scoring response is never fatal: when the
\* response leaves a candidate out, names one that was not asked for or lists
\* the entries in another order, the request still returns exactly one
\* scored result per candidate.
C21_OneResultPerCandidate ==
    (op = "batch_scores" /\ pc = "done" /\ AnsweredWithList) =>
        /\ fbResult.status = "return"
        /\ Len(fbResult.value) = nbooks

\* ------------------------------------------------ properties of the ranking
RuleBasedFlags ==
    {"Rule-based recommendation (LLM error)", "Rule-based recommendation (LLM unavailable)"}

\* a scan with LLM scoring on in which the LLM gave no score: no provider is
\* configured, or every candidate scored so far had its provider call fail
LlmPathFailed ==
    /\ op = "filter_and_rank"
    /\ pc = "done"
    /\ LLM_ENABLED
    /\ \/ get_llm_provider = None
       \/ /\ Len(EndsOf(trace)) >= 1
          /\ Len(EndsOf(trace)) >= Len(all_books)
          /\ \A i \in 1..Len(trace) : trace[i].ev = "end" => trace[i].out.exc # NoExc

\* C22: when the LLM path fails as a whole, every candidate of the request
\* is scored with calculate_match_score_rule_based and carries an
\* explanation that flags the degraded mode; none is left without a score.
C22_WholeBatchFallsBack ==
    LlmPathFailed =>
        /\ result.status = "return"
        /\ Len(result.value.all_books) = Len(detected_books)
        /\ \A i \in 1..Len(detected_books) :
             /\ result.value.all_books[i].match_score
                    = ReferenceScore(detected_books[i], user_library)
             /\ result.value.all_books[i].recommendation_explanation \in RuleBasedFlags

\* a scan that returned its two lists
RankReturned == op = "filter_and_rank" /\ pc = "done" /\ result.status = "return"

\* the candidate's id is one a book of the library has
InLibrary(book, lib) ==
    /\ "google_books_id" \in book.keys
    /\ book.google_books_id # None
    /\ book.google_books_id[1] # ""
    /\ \E k \in 1..Len(lib) : lib[k].google_books_id = book.google_books_id

\* how often entry e occurs in list lst
CountIn(lst, e) == Cardinality({i \in 1..Len(lst) : lst[i] = e})

WithScore(lst, sc) == SelectSeq(lst, LAMBDA b : b.match_score = sc)

\* C24: the recommendations are sorted by match_score, highest first, and
\* recommendations of equal match_score keep the order of the input.
C24_SortedStable ==
    RankReturned =>
        LET recs == result.value.recommendations
            candidates == SelectSeq(result.value.all_books, LAMBDA b : ~b.in_library)
        IN  /\ \A i, j \in 1..Len(recs) :
                 i < j => recs[i].match_score >= recs[j].match_score
            /\ \A i \in 1..Len(recs) :
                 WithScore(recs, recs[i].match_score)
                     = WithScore(candidates, recs[i].match_score)

\* two different books with the same score, recommended in input order
C24_Witness ==
    /\ RankReturned
    /\ Len(result.value.recommendations) = 2
    /\ result.value.recommendations[1].match_score
           = result.value.recommendations[2].match_score
    /\ result.value.recommendations[1].book # result.value.recommendations[2].book
    /\ result.value.recommendations = result.value.all_books

\* ------------------------------------------------- properties of the cache
RuleBasedExplanations == RuleBasedFlags \cup {"Rule-based recommendation"}

\* this step is the completion of the provider call awaited for book idx
CallEnds ==
    /\ op = "filter_and_rank"
    /\ pc = "awaiting"
    /\ Len(trace') > Len(trace)
    /\ trace'[Len(trace) + 1].ev = "end"

\* C27: every entry of the cache is the (score, explanation) pair a
\* successful provider call returned, stored under the key of the book the
\* call was made for; a rule-based fallback result is never stored, so the
\* key of a failed call stays absent and the next call asks the provider.
C27_OnlyLlmResultsCached ==
    /\ [](\A k \in 1..Len(cache) : cache[k].value.explanation \notin RuleBasedExplanations)
    /\ [][\A k \in 1..Len(cache') :
            \/ \E j \in 1..Len(cache) : cache[j] = cache'[k]
            \/ /\ CallEnds
               /\ trace'[Len(trace) + 1].out.exc = NoExc
               /\ cache'[k] = [key |-> cache_key(detected_books[idx], user_library),
                               value |-> trace'[Len(trace) + 1].out.value]]_vars

\* a scan in which one provider call succeeded and was cached and the next
\* failed: that book has the rule-based score and its key is not in the cache
C27_Witness ==
    /\ RankReturned
    /\ Len(cache) = 1
    /\ \E i \in 1..Len(trace) : trace[i].ev = "end" /\ trace[i].out.exc = NoExc
    /\ \E i \in 1..Len(trace) : trace[i].ev = "end" /\ trace[i].out.exc # NoExc
    /\ \E i \in 1..Len(result.value.all_books) :
         /\ result.value.all_books[i].recommendation_explanation
                = "Rule-based recommendation (LLM error)"
         /\ ~cache_has(cache, cache_key(detected_books[i], user_library))

\* C28: a cache hit returns a result computed for the same candidate: when
\* the call for book idx has stored its result, a later book of the scan
\* that reads that entry is the same candidate, also when it has no
\* google_books_id.
C28_HitIsOwnEntry ==
    [][(CallEnds /\ trace'[Len(trace) + 1].out.exc = NoExc) =>
          \A i \in (idx + 1)..Len(all_books') :
              cache_key(detected_books[i], user_library)
                    = cache_key(detected_books[idx], user_library)
                  => detected_books[i] = detected_books[idx]]_vars

\* ----------------------------------- repair_json and the trailing comma
\* the text is a document cut right after a comma that separates two
\* elements or two members
CutAfterComma(s) ==
    /\ Truncated(s)
    /\ s[Len(s)] = ","
    /\ scan(Scan(<<>>, "value"), s).mode \in {"value", "key"}

\* the value json.loads returns for a text that parses, written without the
\* blanks between its tokens: two texts of this grammar give equal values
\* exactly when these are equal
RECURSIVE without_blanks(_, _)
without_blanks(s, mode) ==
    IF s = <<>> THEN <<>>
    ELSE LET c == Head(s)
         IN  CASE mode = "escape" -> <<c>> \o without_blanks(Tail(s), "string")
               [] mode = "string" ->
                     <<c>> \o without_blanks(Tail(s), IF c = Q THEN "out"
                                                     ELSE IF c = BS THEN "escape"
                                                     ELSE "string")
               [] OTHER ->
                     IF c = " " THEN without_blanks(Tail(s), "out")
                     ELSE <<c>> \o without_blanks(Tail(s), IF c = Q THEN "string" ELSE "out")

json_value(s) == without_blanks(s, "out")

\* C29: repair_json of a well-formed prefix cut right after a separating
\* comma returns text that parses, and repair_json of text that already
\* parses returns text that parses to the same value.
C29_CommaBeforeAppendedCloser ==
    repaired # None =>
        /\ CutAfterComma(json_str) => json_parses(repaired[1])
        /\ json_parses(json_str) =>
             /\ json_parses(repaired[1])
             /\ json_value(repaired[1]) = json_value(json_str)

\* the second half alone, on the texts in which no string holds a comma
\* before a closer
ParsingTextKept ==
    (repaired # None /\ json_parses(json_str)
        /\ json_str # <<"[", Q, "a", ",", "]", Q, "]">>) =>
        /\ json_parses(repaired[1])
        /\ json_value(repaired[1]) = json_value(json_str)

\* --------------------------------- properties of the concurrent requests
\* the writes to the entry of key, in order
WritesTo(key) == SelectSeq(writes, LAMBDA w : w.key = key)

\* request r called the provider and the call succeeded
OwnCallSucceeded(r) ==
    /\ requests[r].pc = "done"
    /\ requests[r].out # None
    /\ requests[r].out[1].exc = NoExc

\* C25: two requests for the same key may both miss and both call the
\* provider; each request returns the result of its own call; every entry
\* of the cache is the whole (score, explanation) pair of the last write to
\* its key, and the key written last is in the cache.
C25_LastWriterWins ==
    /\ \A r \in 1..Len(requests) :
         OwnCallSucceeded(r) =>
             /\ requests[r].returned[1].score = requests[r].out[1].value.score
             /\ requests[r].returned[1].explanation = requests[r].out[1].value.explanation
    /\ \A k \in 1..Len(cache) :
         /\ WritesTo(cache[k].key) # <<>>
         /\ cache[k].value = WritesTo(cache[k].key)[Len(WritesTo(cache[k].key))].value
    /\ writes # <<>> =>
         /\ cache_has(cache, writes[Len(writes)].key)
         /\ cache_get(cache, writes[Len(writes)].key) = writes[Len(writes)].value

\* two requests for the same key both missed, both called the provider and
\* got different results; the cache holds the result of the later write
C25_Witness ==
    /\ OwnCallSucceeded(1)
    /\ OwnCallSucceeded(2)
    /\ cache_key(requests[1].book[1], requests[1].lib)
           = cache_key(requests[2].book[1], requests[2].lib)
    /\ requests[1].out[1].value # requests[2].out[1].value
    /\ Len(writes) = 2
    /\ writes[2].r = 1
    /\ cache = <<[key |-> writes[2].key, value |-> requests[1].out[1].value]>>

\* ------------------------------------------- properties of the lookups
\* the books of the successful lookups among the first n titles, in the
\* order of the titles, each with the confidence of its title
RECURSIVE Resolved(_)
Resolved(n) ==
    IF n = 0 THEN <<>>
    ELSE IF search_tasks[n].kind = "book"
    THEN Append(Resolved(n - 1),
                [google_books_id |-> volume_of(detected_titles[n].title),
                 confidence |-> detected_titles[n].confidence])
    ELSE Resolved(n - 1)

\* C26: the lookups complete in any order and are joined; a lookup that
\* raised or found nothing is dropped, and the candidates are exactly the
\* successful lookups, in extraction order, each with the confidence of the
\* title it was resolved from.
C26_CandidatesOfLookups ==
    detected_books_list # None =>
        detected_books_list[1] = Resolved(Len(detected_titles))

\* three lookups that completed last to first; the second found nothing or
\* raised, the other two give the candidates, in extraction order
C26_Witness ==
    /\ detected_books_list # None
    /\ completed = <<3, 2, 1>>
    /\ search_tasks[2].kind \in {"none", "raised"}
    /\ Len(detected_books_list[1]) = 2
    /\ detected_books_list[1][1].confidence = detected_titles[1].confidence
    /\ detected_books_list[1][2].confidence = detected_titles[3].confidence
    /\ detected_titles[1] # detected_titles[3]

\* ------------------------------------ properties of add_book_to_library
\* the rows of the library of user that hold book gid
RowsOf(user, gid) ==
    {k \in 1..Len(userlibrary_table) : userlibrary_table[k] = LibraryRow(user, gid)}

\* C30: under any interleaving of add_book_to_library requests a library
\* never holds the same book twice, no request ends in an unhandled
\* database error, and at most one request per (user, book) succeeds.
C30_NoDuplicateLibraryRow ==
    /\ \A user \in Users, gid \in Volumes : Cardinality(RowsOf(user, gid)) <= 1
    /\ \A r \in 1..Len(add_requests) :
         add_requests[r].pc = "done" => add_requests[r].response \in {200, 400, 404}
    /\ \A r1, r2 \in 1..Len(add_requests) :
         (/\ r1 # r2
          /\ add_requests[r1].response = 200
          /\ add_requests[r2].response = 200
          /\ add_requests[r1].user = add_requests[r2].user)
             => add_requests[r1].gid # add_requests[r2].gid

====
